---- MODULE Spec2Model ----
(***************************************************************************)
(* Model of the twitter pallet (pallets/twitter/src/lib.rs): the three     *)
(* storage items Accounts, Tweets and NextTweetId, the dispatchable calls  *)
(* new_tweet, retweet and comment, and the allocator alloc_id.             *)
(*                                                                         *)
(* A dispatchable of this pallet is not wrapped in a storage transaction:  *)
(* a write made before a later `?` returns an error stays in storage.      *)
(* Every call is modelled as one atomic step (calls are applied one at a   *)
(* time), with the writes it has made up to the point where it returns.    *)
(***************************************************************************)
EXTENDS Integers, Sequences, FiniteSets, TLC

VARIABLES
    Accounts,      \* AccountId -> Vec<TweetId>          (decl_storage, ValueQuery default [])
    Tweets,        \* TweetId -> Option<Tweet>           (a key is absent or holds a record)
    NextTweetId,   \* TweetId                            (default 0)
    events,        \* the Tweeted(..) events deposited so far, oldest first
    block_number,  \* frame_system's current block number
    result         \* the last dispatched call and the DispatchResult it returned

vars == <<Accounts, Tweets, NextTweetId, events, block_number, result>>

store == <<Accounts, Tweets, NextTweetId>>

---------------------------------------------------------------------------
(* Bounds and input sets *)

\* The largest TweetId; stands for u128::MAX = 2^128 - 1.
TweetIdMax == 2

\* The last block the model runs to (the chain starts at block 0).
MaxBlock == 1

MAX_TEXT_LEN == 140

TweetId == 0..TweetIdMax

AccountIds == {"Alice", "Bob"}

\* A Vec<u8> of n bytes.
RECURSIVE Bytes(_)
Bytes(n) ==
    IF n = 0 THEN <<>>
    ELSE LET half == Bytes(n \div 2)
         IN  IF n % 2 = 0 THEN half \o half ELSE Append(half \o half, 0)

\* Texts on both sides of the length bound.
Texts == {Bytes(MAX_TEXT_LEN), Bytes(MAX_TEXT_LEN + 1)}

\* The same with the empty text.
TextsWide == {Bytes(0), Bytes(MAX_TEXT_LEN), Bytes(MAX_TEXT_LEN + 1)}

\* Option<T>
None == <<>>

Some(x) == <<x>>

is_none(o) == o = None

---------------------------------------------------------------------------
(* Storage *)

\* Self::tweets(id): the stored record, or None
tweets(id) == IF id \in DOMAIN Tweets THEN Some(Tweets[id]) ELSE None

\* The record stored under the counter's new value, id + 1.
insert_next(map, id, tweet) ==
    [k \in (DOMAIN map) \cup {id + 1} |-> IF k = id + 1 THEN tweet ELSE map[k]]

\* <Tweets<T>>::insert(id, tweet): an upsert
insert(map, id, tweet) ==
    [k \in (DOMAIN map) \cup {id} |-> IF k = id THEN tweet ELSE map[k]]

\* Vec::push
push(vec, x) == Append(vec, x)

\* The id put in front of the account's ids.
accounts_push_front(map, author, new_id) ==
    [map EXCEPT ![author] = <<new_id>> \o @]

\* <Accounts<T>>::mutate(&author, |tweets| tweets.push(new_id))
accounts_push(map, author, new_id) ==
    [map EXCEPT ![author] = push(@, new_id)]

\* <Tweets<T>>::try_mutate_exists(&tweet_id, |maybe_tweet| { ..comments.push(new_id).. }):
\* Err(TweetNotFound) and no write when the key is absent.
comments_push(map, tweet_id, new_id) ==
    IF tweet_id \in DOMAIN map
    THEN [ok |-> TRUE,
          map |-> [map EXCEPT ![tweet_id].comments = push(@, new_id)]]
    ELSE [ok |-> FALSE, map |-> map]

\* u128::wrapping_add
wrapping_add(a, b) == Some((a + b) % (TweetIdMax + 1))

\* u128::checked_add
checked_add(a, b) == IF a + b > TweetIdMax THEN None ELSE Some(a + b)

\* alloc_id() without NextTweetId::put(new_next)
alloc_id_no_put(next) ==
    LET new_next == checked_add(next, 1)
    IN  IF is_none(new_next)
        THEN [ret |-> None, NextTweetId |-> next]
        ELSE [ret |-> Some(next), NextTweetId |-> next]

\* alloc_id(): the value returned and the counter it leaves in storage
alloc_id(next) ==
    LET new_next == checked_add(next, 1)
    IN  IF is_none(new_next)
        THEN [ret |-> None, NextTweetId |-> next]
        ELSE [ret |-> Some(next), NextTweetId |-> new_next[1]]

\* The bound off by one upwards, and downwards.
text_fits_141(text) == Len(text) <= MAX_TEXT_LEN + 1

text_fits_139(text) == Len(text) < MAX_TEXT_LEN

\* ensure!(text.len() <= 140, ..)
text_fits(text) == Len(text) <= MAX_TEXT_LEN

\* ensure!(Self::tweets(tweet_id).is_none(), Error::<T>::TweetNotFound)
target_check(tweet_id) == is_none(tweets(tweet_id))

\* Tweet { id, create_at, quote_tweet_id, text, comments: vec![], author }
Tweet(id, quote_tweet_id, text, author) ==
    [id |-> id,
     create_at |-> block_number,
     quote_tweet_id |-> quote_tweet_id,
     text |-> text,
     comments |-> <<>>,
     author |-> author]

\* The event left out.
deposit_event_none(tweet) == events' = events

\* Self::deposit_event(RawEvent::Tweeted(tweet))
deposit_event(tweet) == events' = Append(events, tweet)

\* A call that returns Err(err) having written nothing.
Reject(call, err) ==
    /\ result' = [call |-> call, status |-> err]
    /\ UNCHANGED <<Accounts, Tweets, NextTweetId, events, block_number>>

---------------------------------------------------------------------------
(* Dispatchable calls *)

new_tweet(author, text) ==
    IF ~text_fits(text) THEN Reject("new_tweet", "TweetTooLong")
    ELSE
    LET a == alloc_id(NextTweetId) IN
    IF is_none(a.ret) THEN Reject("new_tweet", "NoAvailableTweetId")
    ELSE
    LET new_id == a.ret[1]
        tweet == Tweet(new_id, None, text, author)
    IN  /\ NextTweetId' = a.NextTweetId
        /\ Accounts' = accounts_push(Accounts, author, new_id)
        /\ Tweets' = insert(Tweets, new_id, tweet)
        /\ deposit_event(tweet)
        /\ result' = [call |-> "new_tweet", status |-> "Ok"]
        /\ UNCHANGED block_number

retweet(author, tweet_id, text) ==
    IF ~text_fits(text) THEN Reject("retweet", "TweetTooLong")
    ELSE
    IF ~target_check(tweet_id) THEN Reject("retweet", "TweetNotFound")
    ELSE
    LET a == alloc_id(NextTweetId) IN
    IF is_none(a.ret) THEN Reject("retweet", "NoAvailableTweetId")
    ELSE
    LET new_id == a.ret[1]
        tweet == Tweet(new_id, Some(tweet_id), text, author)
    IN  /\ NextTweetId' = a.NextTweetId
        /\ Accounts' = accounts_push(Accounts, author, new_id)
        /\ Tweets' = insert(Tweets, new_id, tweet)
        /\ deposit_event(tweet)
        /\ result' = [call |-> "retweet", status |-> "Ok"]
        /\ UNCHANGED block_number

\* comment with the allocation and the write to the target ahead of the
\* ensure!s.
comment_write_first(author, text, tweet_id) ==
    LET a == alloc_id(NextTweetId) IN
    IF is_none(a.ret) THEN Reject("comment", "NoAvailableTweetId")
    ELSE
    LET new_id == a.ret[1]
        cmt == Tweet(new_id, None, text, author)
        m == comments_push(Tweets, tweet_id, new_id)
        err(e) == /\ NextTweetId' = a.NextTweetId
                  /\ Tweets' = m.map
                  /\ result' = [call |-> "comment", status |-> e]
                  /\ UNCHANGED <<Accounts, events, block_number>>
    IN  IF ~m.ok THEN err("TweetNotFound")
        ELSE IF ~text_fits(text) THEN err("TweetTooLong")
        ELSE IF ~target_check(tweet_id) THEN err("TweetNotFound")
        ELSE /\ NextTweetId' = a.NextTweetId
             /\ Accounts' = accounts_push(Accounts, author, new_id)
             /\ Tweets' = insert(m.map, new_id, cmt)
             /\ deposit_event(cmt)
             /\ result' = [call |-> "comment", status |-> "Ok"]
             /\ UNCHANGED block_number

comment(author, text, tweet_id) ==
    IF ~text_fits(text) THEN Reject("comment", "TweetTooLong")
    ELSE
    IF ~target_check(tweet_id) THEN Reject("comment", "TweetNotFound")
    ELSE
    LET a == alloc_id(NextTweetId) IN
    IF is_none(a.ret) THEN Reject("comment", "NoAvailableTweetId")
    ELSE
    LET new_id == a.ret[1]
        cmt == Tweet(new_id, None, text, author)
        m == comments_push(Tweets, tweet_id, new_id)
    IN  IF ~m.ok
        THEN \* the `?` after try_mutate_exists: alloc_id's write stays
             /\ NextTweetId' = a.NextTweetId
             /\ result' = [call |-> "comment", status |-> "TweetNotFound"]
             /\ UNCHANGED <<Accounts, Tweets, events, block_number>>
        ELSE /\ NextTweetId' = a.NextTweetId
             /\ Accounts' = accounts_push(Accounts, author, new_id)
             /\ Tweets' = insert(m.map, new_id, cmt)
             /\ deposit_event(cmt)
             /\ result' = [call |-> "comment", status |-> "Ok"]
             /\ UNCHANGED block_number

\* The chain moves to the next block between calls.
next_block ==
    /\ block_number < MaxBlock
    /\ block_number' = block_number + 1
    /\ UNCHANGED <<Accounts, Tweets, NextTweetId, events, result>>

---------------------------------------------------------------------------

Init ==
    /\ Accounts = [a \in AccountIds |-> <<>>]
    /\ Tweets = [k \in {} |-> None]
    /\ NextTweetId = 0
    /\ events = <<>>
    /\ block_number = 0
    /\ result = [call |-> "none", status |-> "Ok"]

CallNewTweet == \E author \in AccountIds, text \in Texts : new_tweet(author, text)

CallRetweet ==
    \E author \in AccountIds, tweet_id \in TweetId, text \in Texts :
        retweet(author, tweet_id, text)

CallComment ==
    \E author \in AccountIds, text \in Texts, tweet_id \in TweetId :
        comment(author, text, tweet_id)

Next ==
    \/ CallNewTweet
    \/ CallRetweet
    \/ CallComment
    \/ next_block

Spec == Init /\ [][Next]_vars

\* The calls alone, within one block, over the wider set of texts.
TextNewTweet == \E author \in AccountIds, text \in TextsWide : new_tweet(author, text)

TextRetweet ==
    \E author \in AccountIds, tweet_id \in TweetId, text \in TextsWide :
        retweet(author, tweet_id, text)

TextComment ==
    \E author \in AccountIds, text \in TextsWide, tweet_id \in TweetId :
        comment(author, text, tweet_id)

NextTexts ==
    \/ TextNewTweet
    \/ TextRetweet
    \/ TextComment

SpecTexts == Init /\ [][NextTexts]_vars

---------------------------------------------------------------------------
(* Properties *)

Ok == result'.status = "Ok"

\* The counter can still hand out an identifier.
CounterLeft == NextTweetId < TweetIdMax

\* The record a successful call stores: under the counter's old value.
Stored(quote_tweet_id, text, author) ==
    /\ NextTweetId \in DOMAIN Tweets'
    /\ Tweets'[NextTweetId].id = NextTweetId
    /\ Tweets'[NextTweetId].quote_tweet_id = quote_tweet_id
    /\ Tweets'[NextTweetId].text = text
    /\ Tweets'[NextTweetId].author = author
    /\ Tweets'[NextTweetId].comments = <<>>

\* C1: with text of at most 140 bytes and a counter that is not exhausted,
\* retweet succeeds exactly when tweet_id is a key of Tweets at the call, and
\* the record it stores has quote_tweet_id = Some(tweet_id).
C1_RetweetIffTargetStored ==
    [][\A author \in AccountIds, tweet_id \in TweetId, text \in Texts :
        (retweet(author, tweet_id, text) /\ Len(text) <= 140 /\ CounterLeft)
        => /\ Ok <=> tweet_id \in DOMAIN Tweets
           /\ Ok => Stored(Some(tweet_id), text, author)]_vars

\* C2: with text of at most 140 bytes and a counter that is not exhausted,
\* comment succeeds exactly when tweet_id is a key of Tweets; the target's
\* comments then are the old comments with the new id appended, and its other
\* fields are as before.
C2_CommentIffTargetStored ==
    [][\A author \in AccountIds, text \in Texts, tweet_id \in TweetId :
        (comment(author, text, tweet_id) /\ Len(text) <= 140 /\ CounterLeft)
        => /\ Ok <=> tweet_id \in DOMAIN Tweets
           /\ Ok => Tweets'[tweet_id] =
                      [Tweets[tweet_id] EXCEPT
                          !.comments = Append(@, NextTweetId)]]_vars

\* C3: a call that returns an error leaves NextTweetId, Tweets and Accounts as
\* they were.
C3_FailedCallWritesNothing ==
    [][(\E author \in AccountIds, text \in Texts, tweet_id \in TweetId :
            \/ new_tweet(author, text)
            \/ retweet(author, tweet_id, text)
            \/ comment(author, text, tweet_id))
        => (~Ok => UNCHANGED store)]_vars

\* C4: with text longer than 140 bytes each of the three calls returns
\* TweetTooLong, whatever the target and the counter, and NextTweetId, Tweets
\* and Accounts are as before.
C4_TooLongRejected ==
    [][\A author \in AccountIds, text \in TextsWide, tweet_id \in TweetId :
        (/\ Len(text) > 140
         /\ \/ new_tweet(author, text)
            \/ retweet(author, tweet_id, text)
            \/ comment(author, text, tweet_id))
        => /\ result'.status = "TweetTooLong"
           /\ UNCHANGED store]_vars

\* A call with a text of 141 bytes was rejected with posts stored and the
\* counter exhausted.
C4_Witness ==
    /\ result = [call |-> "comment", status |-> "TweetTooLong"]
    /\ DOMAIN Tweets # {}
    /\ NextTweetId = TweetIdMax

\* C5 as stated: new_tweet with text of at most 140 bytes succeeds and stores
\* the text and the author given, quote_tweet_id = None and no comments.
C5_NewTweetSucceeds ==
    [][\A author \in AccountIds, text \in TextsWide :
        (new_tweet(author, text) /\ Len(text) <= 140)
        => Ok /\ Stored(None, text, author)]_vars

\* C5, amended: the same while the counter is not exhausted.
C5_NewTweetSucceedsWhileCounterLeft ==
    [][\A author \in AccountIds, text \in TextsWide :
        (new_tweet(author, text) /\ Len(text) <= 140 /\ CounterLeft)
        => Ok /\ Stored(None, text, author)]_vars

\* new_tweet has stored an empty text and a text of exactly 140 bytes, for
\* two authors.
C5_Witness ==
    /\ result = [call |-> "new_tweet", status |-> "Ok"]
    /\ DOMAIN Tweets = {0, 1}
    /\ Tweets[0].text = Bytes(0) /\ Tweets[0].author = "Alice"
    /\ Tweets[1].text = Bytes(MAX_TEXT_LEN) /\ Tweets[1].author = "Bob"
    /\ Tweets[0].quote_tweet_id = None /\ Tweets[1].quote_tweet_id = None

\* The ids of the events deposited so far, in the order of the calls.
Issued == [i \in DOMAIN events |-> events[i].id]

\* The ids of the successful calls of one author, in the order of the calls.
IssuedTo(author) ==
    LET mine == SelectSeq(events, LAMBDA e : e.author = author)
    IN  [i \in DOMAIN mine |-> mine[i].id]

\* C6: the ids given to the successful calls, of whatever kind and with
\* failing calls in between, are strictly increasing in call order (hence
\* pairwise distinct).
C6_IdsStrictlyIncreasing ==
    \A i, j \in DOMAIN Issued : i < j => Issued[i] < Issued[j]

\* Two calls of different kinds succeeded and a later call failed.
C6_Witness ==
    /\ Len(events) = 2
    /\ events[1].quote_tweet_id # None
    /\ events[2].quote_tweet_id = None
    /\ result.status = "NoAvailableTweetId"

\* C7: the index entry of every account is the sequence of the ids of its
\* successful calls, in call order: N ids after N successful calls, none for
\* an account without one.
C7_IndexIsOwnIdsInOrder ==
    \A author \in AccountIds : Accounts[author] = IssuedTo(author)

\* One account has two ids, the other none, after a retweet and a new_tweet
\* with failing calls around them.
C7_Witness ==
    /\ Len(Accounts["Bob"]) = 2
    /\ Accounts["Alice"] = <<>>
    /\ events[1].quote_tweet_id # None
    /\ result.status = "NoAvailableTweetId"

\* C8 as stated: with the counter at its maximum every call returns
\* NoAvailableTweetId and writes nothing.
C8_ExhaustedAlwaysNoAvailableTweetId ==
    [][\A author \in AccountIds, text \in Texts, tweet_id \in TweetId :
        (/\ NextTweetId = TweetIdMax
         /\ \/ new_tweet(author, text)
            \/ retweet(author, tweet_id, text)
            \/ comment(author, text, tweet_id))
        => /\ result'.status = "NoAvailableTweetId"
           /\ UNCHANGED store]_vars

\* C8, amended: with the counter at its maximum every call fails and writes
\* nothing; the error is TweetTooLong for a text longer than 140 bytes,
\* otherwise NoAvailableTweetId for new_tweet, and TweetNotFound or
\* NoAvailableTweetId for retweet and comment.
C8_ExhaustedRejects ==
    [][NextTweetId = TweetIdMax =>
        /\ \A author \in AccountIds, text \in Texts :
            (result'.call = "new_tweet" /\ new_tweet(author, text))
            => /\ UNCHANGED store
               /\ result'.status =
                    IF Len(text) > 140 THEN "TweetTooLong" ELSE "NoAvailableTweetId"
        /\ \A author \in AccountIds, text \in Texts, tweet_id \in TweetId :
            (\/ result'.call = "retweet" /\ retweet(author, tweet_id, text)
             \/ result'.call = "comment" /\ comment(author, text, tweet_id))
            => /\ UNCHANGED store
               /\ IF Len(text) > 140
                  THEN result'.status = "TweetTooLong"
                  ELSE result'.status \in {"TweetNotFound", "NoAvailableTweetId"}]_vars

\* A retweet was refused for want of an identifier.
C8_Witness ==
    /\ NextTweetId = TweetIdMax
    /\ result = [call |-> "retweet", status |-> "NoAvailableTweetId"]

\* C9: the tweet a stored record quotes is a key of Tweets (it was one when
\* the record was made, and no key is ever removed).
C9_QuotedTweetStored ==
    \A k \in DOMAIN Tweets :
        Tweets[k].quote_tweet_id # None
        => Tweets[k].quote_tweet_id[1] \in DOMAIN Tweets

IsPrefix(s, t) == Len(s) <= Len(t) /\ SubSeq(t, 1, Len(s)) = s

AfterPost ==
    /\ NextTweetId = 1
    /\ DOMAIN Tweets = {0}
    /\ Tweets[0].author = "Alice"
    /\ Tweets[0].quote_tweet_id = None
    /\ Tweets[0].comments = <<>>
    /\ Accounts = [a \in AccountIds |-> IF a = "Alice" THEN <<0>> ELSE <<>>]

AfterQuote ==
    /\ NextTweetId = 2
    /\ DOMAIN Tweets = {0, 1}
    /\ Tweets[0].author = "Alice"
    /\ Tweets[1].author = "Bob"
    /\ Tweets[1].quote_tweet_id = Some(0)
    /\ Tweets[1].comments = <<>>
    /\ Accounts = [a \in AccountIds |-> IF a = "Alice" THEN <<0>> ELSE <<1>>]

AfterComment ==
    /\ NextTweetId = 3
    /\ DOMAIN Tweets = {0, 1, 2}
    /\ Tweets[1].comments = <<2>>
    /\ Accounts = [a \in AccountIds |-> IF a = "Alice" THEN <<0, 2>> ELSE <<1>>]

\* C11: from the empty state, new_tweet by Alice succeeds with id 0; then
\* retweet(Bob, 0, ..) succeeds with id 1, quote_tweet_id = Some(0),
\* Accounts[Bob] = <<1>> and the counter 2; then comment(Alice, .., 1)
\* succeeds with id 2, tweet 1 has comments <<2>>, Accounts[Alice] = <<0, 2>>
\* and the counter is 3; then a comment on a tweet that is not stored fails
\* with TweetNotFound and writes nothing.
C11_Scenario ==
    [][\A text \in Texts : Len(text) <= 140 =>
        /\ (NextTweetId = 0 /\ DOMAIN Tweets = {} /\ new_tweet("Alice", text))
           => Ok /\ Stored(None, text, "Alice") /\ AfterPost'
        /\ (AfterPost /\ retweet("Bob", 0, text))
           => Ok /\ Stored(Some(0), text, "Bob") /\ AfterQuote'
        /\ (AfterQuote /\ comment("Alice", text, 1))
           => Ok /\ Stored(None, text, "Alice") /\ AfterComment'
        /\ \A author \in AccountIds, tweet_id \in TweetId \ DOMAIN Tweets :
            (AfterComment /\ comment(author, text, tweet_id))
            => result'.status = "TweetNotFound" /\ UNCHANGED store]_vars

\* A stored record without its comments.
Fixed(tweet) == [tweet EXCEPT !.comments = <<>>]

\* C12: a key of Tweets stays a key in every later state, and the id,
\* create_at, quote_tweet_id, text and author stored under it stay as they
\* were when the record was made.
C12_StoredRecordKept ==
    [][\A k \in DOMAIN Tweets :
        /\ k \in DOMAIN Tweets'
        /\ Fixed(Tweets'[k]) = Fixed(Tweets[k])]_vars

\* A second tweet was stored in a later block and by another author than the
\* first, and the first is as it was made.
C12_Witness ==
    /\ DOMAIN Tweets = {0, 1}
    /\ Tweets[0].create_at = 0 /\ Tweets[0].author = "Alice"
    /\ Tweets[1].create_at = 1 /\ Tweets[1].author = "Bob"
    /\ Tweets[0] = events[1]

\* C13: alloc_id on the counter n stores n + 1 and returns n when n + 1 is
\* in range, and returns None leaving n when it is not; in every step the
\* counter stays or grows by one (by one in a call that succeeds), and it
\* stays when it is at its maximum.
C13_AllocAdvancesOrRefuses ==
    [][/\ alloc_id(NextTweetId) =
            IF NextTweetId + 1 <= TweetIdMax
            THEN [ret |-> Some(NextTweetId), NextTweetId |-> NextTweetId + 1]
            ELSE [ret |-> None, NextTweetId |-> NextTweetId]
       /\ NextTweetId' \in {NextTweetId, NextTweetId + 1}
       /\ NextTweetId' \in TweetId
       /\ events' # events => NextTweetId' = NextTweetId + 1
       /\ NextTweetId = TweetIdMax => NextTweetId' = NextTweetId]_vars

\* The counter has reached its maximum and a call was refused an id.
C13_Witness ==
    /\ NextTweetId = TweetIdMax
    /\ result.status = "NoAvailableTweetId"

\* C14: retweet and comment check the length first, then the target, then
\* allocate: too long a text with a missing target gives TweetTooLong; a text
\* that fits with a missing target and the counter exhausted gives
\* TweetNotFound; a call that returns TweetTooLong or TweetNotFound has not
\* moved the counter.
C14_LengthThenTargetThenAlloc ==
    [][\A author \in AccountIds, text \in Texts, tweet_id \in TweetId :
        (\/ result'.call = "retweet" /\ retweet(author, tweet_id, text)
         \/ result'.call = "comment" /\ comment(author, text, tweet_id))
        => /\ (Len(text) > 140 /\ tweet_id \notin DOMAIN Tweets)
              => result'.status = "TweetTooLong"
           /\ (/\ Len(text) <= 140
               /\ tweet_id \notin DOMAIN Tweets
               /\ NextTweetId = TweetIdMax)
              => result'.status = "TweetNotFound"
           /\ result'.status \in {"TweetTooLong", "TweetNotFound"}
              => NextTweetId' = NextTweetId]_vars

C16_SuccessWritesThreeThings ==
    [][\A author \in AccountIds, text \in Texts, tweet_id \in TweetId :
        (/\ Ok
         /\ \/ result'.call = "new_tweet" /\ new_tweet(author, text)
            \/ result'.call = "retweet" /\ retweet(author, tweet_id, text))
        => /\ NextTweetId' = NextTweetId + 1
           /\ NextTweetId \notin DOMAIN Tweets
           /\ DOMAIN Tweets' = DOMAIN Tweets \cup {NextTweetId}
           /\ \A k \in DOMAIN Tweets : Tweets'[k] = Tweets[k]
           /\ Accounts' = [Accounts EXCEPT ![author] = Append(@, NextTweetId)]]_vars

\* A retweet has succeeded for an author who had a tweet already.
C16_Witness ==
    /\ result = [call |-> "retweet", status |-> "Ok"]
    /\ Accounts["Alice"] = <<0, 1>>
    /\ Tweets[0].quote_tweet_id = None
    /\ Tweets[1].quote_tweet_id # None

\* C17: every key of Tweets is below the counter and the record under a key
\* has that key as its id; so the id the next allocation returns is no key of
\* Tweets, and insert does not overwrite a record.
C17_KeysBelowCounter ==
    /\ \A k \in DOMAIN Tweets : k < NextTweetId /\ Tweets[k].id = k
    /\ LET a == alloc_id(NextTweetId)
       IN  ~is_none(a.ret) => a.ret[1] \notin DOMAIN Tweets

\* An id was consumed by a failing call before a tweet was stored: the keys
\* have a gap below the counter.
C17_Witness ==
    /\ DOMAIN Tweets = {1}
    /\ NextTweetId = 2

\* The number of places of a sequence that hold x.
Count(seq, x) == Cardinality({i \in DOMAIN seq : seq[i] = x})

\* C18: every id in the ids of an account is the key of a stored record whose
\* author is that account; the id of every stored record is once in its
\* author's ids and not in another account's; the ids of every account are
\* strictly increasing.
C18_IndexAgreesWithStore ==
    /\ \A a \in AccountIds : \A i \in DOMAIN Accounts[a] :
        /\ Accounts[a][i] \in DOMAIN Tweets
        /\ Tweets[Accounts[a][i]].author = a
    /\ \A k \in DOMAIN Tweets : \A a \in AccountIds :
        Count(Accounts[a], k) = IF Tweets[k].author = a THEN 1 ELSE 0
    /\ \A a \in AccountIds : \A i, j \in DOMAIN Accounts[a] :
        i < j => Accounts[a][i] < Accounts[a][j]

\* Both accounts have a stored tweet and a later call has failed.
C18_Witness ==
    /\ Accounts["Alice"] = <<1>>
    /\ Accounts["Bob"] = <<0>>
    /\ result.status # "Ok"

\* C20: the tweet a stored record quotes has an id below the record's own:
\* no record quotes itself or an id not yet allocated when it was made.
C20_QuotesOlderTweet ==
    \A k \in DOMAIN Tweets :
        Tweets[k].quote_tweet_id # None
        => Tweets[k].quote_tweet_id[1] < Tweets[k].id

====
